---- MODULE Spec2Model ----
(***************************************************************************)
(* Model of scripts/benchmark-daemon-vs-fallback.py: AKABenchmark.run and  *)
(* the methods it calls.  The harness is one sequential thread; pc is its  *)
(* position in run().  The target tool (`aka`) is a black box: the exit    *)
(* status of every command, the duration of every query and whether the   *)
(* daemon process is really up after a start/stop are chosen by the        *)
(* environment.                                                            *)
(***************************************************************************)
EXTENDS Integers, Sequences, FiniteSets, TLC

\* ------------------------------------------------------------- bounds
\* iterations (the --iterations argument; 10 by default, 3 with --quick).
\* The trial loops are modelled for iterations >= 1.
Iterations == 2
\* wall-clock durations of a query, in ms, are drawn from 0..MaxDur
MaxDur == 1

Durations == 0 .. MaxDur

\* history entry of one invocation: its wall-clock time is kept when it succeeded
Trial(success, ms) == IF success THEN [success |-> TRUE, ms |-> ms] ELSE [success |-> FALSE]

Modes == {"daemon", "direct"}

VARIABLES
    pc,                 \* position of the control thread in run()
    exc,                \* exception propagating: "none", "KeyboardInterrupt", "RuntimeError"
    daemonUp,           \* environment: the daemon process is up (a status probe would find it)
    i,                  \* loop index of the current trial loop
    wall_clock_daemon,  \* self.results['wall_clock_daemon']
    wall_clock_direct,  \* self.results['wall_clock_direct']
    caller,             \* who called _get_timing_summary: "report" or "export"
    summary_ok,         \* outcome of the --timing-summary command of this call
    timing_summary,     \* dict returned by _get_timing_summary
    report,             \* what generate_report printed
    exported,           \* benchmark_results.json
    trials,             \* history: per mode, the outcome of every invocation made
    lastLifecycle,      \* history: last lifecycle command issued and its outcome
    stopSinceRaise      \* history: a stop command was issued since the last raise

vars == <<pc, exc, daemonUp, i, wall_clock_daemon, wall_clock_direct, caller,
          summary_ok, timing_summary, report, exported, trials, lastLifecycle,
          stopSinceRaise>>

\* ------------------------------------------------------------- helpers
RECURSIVE SeqSum(_)
SeqSum(s) == IF s = <<>> THEN 0 ELSE Head(s) + SeqSum(Tail(s))

RECURSIVE SeqSumSq(_)
SeqSumSq(s) == IF s = <<>> THEN 0 ELSE Head(s) * Head(s) + SeqSumSq(Tail(s))

RECURSIVE SeqMin(_)
SeqMin(s) ==
    IF Len(s) = 1 THEN Head(s)
    ELSE LET m == SeqMin(Tail(s)) IN IF Head(s) < m THEN Head(s) ELSE m

RECURSIVE SeqMax(_)
SeqMax(s) ==
    IF Len(s) = 1 THEN Head(s)
    ELSE LET m == SeqMax(Tail(s)) IN IF Head(s) > m THEN Head(s) ELSE m

\* A fraction <<numerator, denominator>>, denominator > 0 (Python floats are
\* modelled exactly, as fractions of the integer durations).
Frac(n, d) == <<n, d>>
Zero == Frac(0, 1)
Positive(q) == q[1] > 0
FracSub(a, b) == Frac(a[1] * b[2] - b[1] * a[2], a[2] * b[2])
FracDiv(a, b) == Frac(a[1] * b[2], a[2] * b[1])
FracTimes(a, k) == Frac(a[1] * k, a[2])

\* ------------------------------------------------------------- environment
\* `daemon --start` exits 0 before the daemon is necessarily up (the code only
\* sleeps 2 s); a failed start leaves the daemon as it was.
StartOutcomes(up, ok) == IF ok THEN {TRUE} \cup (IF up THEN {} ELSE {FALSE}) ELSE {up}

\* `daemon --stop` exits 0 before the daemon is necessarily gone (the code only
\* sleeps 1 s); a failed stop leaves the daemon as it was.
StopOutcomes(up, ok) == IF ok THEN {FALSE} \cup (IF up THEN {TRUE} ELSE {}) ELSE {up}

\* Lines of a --timing-summary output: the label found on the line and the
\* number of its first numeric token (-1: no such token on the line).
TimingLine(label, num) == [label |-> label, num |-> num]

TimingOutputs ==
    { <<>>,
      << TimingLine("other", -1) >>,
      << TimingLine("Daemon mode:", 1), TimingLine("Samples:", 2),
         TimingLine("Direct mode:", 3), TimingLine("Samples:", 2) >> }

\* ------------------------------------------------------------- pure functions
EmptyDict == [k \in {} |-> 0]

Put(d, k, v) == [x \in DOMAIN d \cup {k} |-> IF x = k THEN v ELSE d[x]]

RECURSIVE ParseLines(_, _)
ParseLines(lines, results) ==
    IF lines = <<>> THEN results
    ELSE LET line == Head(lines)
             next ==
                 IF line.num < 0 THEN results
                 ELSE IF line.label = "Daemon mode:"
                      THEN Put(results, "daemon_avg_ms", line.num)
                 ELSE IF line.label = "Direct mode:"
                      THEN Put(results, "direct_avg_ms", line.num)
                 ELSE IF line.label = "Samples:"
                      THEN IF "daemon_samples" \notin DOMAIN results
                           THEN Put(results, "daemon_samples", line.num)
                           ELSE Put(results, "direct_samples", line.num)
                 ELSE results
         IN ParseLines(Tail(lines), next)

_parse_timing_summary(output) == ParseLines(output, EmptyDict)

\* One mode's wall-clock statistics.  std_sq is the square of the reported
\* standard deviation (the sample variance), 0 with fewer than two samples.
WallStats(samples) ==
    LET n == Len(samples) IN
    IF n = 0
    THEN [avg |-> Zero, std_sq |-> Zero, min |-> 0, max |-> 0, samples |-> 0]
    ELSE [avg |-> Frac(SeqSum(samples), n),
          std_sq |-> IF n > 1
                     THEN Frac(n * SeqSumSq(samples) - SeqSum(samples) * SeqSum(samples),
                               n * (n - 1))
                     ELSE Zero,
          min |-> SeqMin(samples),
          max |-> SeqMax(samples),
          samples |-> n]

ImprovementVsDaemon(daemon_wall_avg, direct_wall_avg) ==
    IF Positive(daemon_wall_avg) /\ Positive(direct_wall_avg)
    THEN LET wall_improvement == FracSub(direct_wall_avg, daemon_wall_avg) IN
         [shown |-> TRUE,
          ms |-> wall_improvement,
          pct |-> FracTimes(FracDiv(wall_improvement, daemon_wall_avg), 100)]
    ELSE [shown |-> FALSE, ms |-> Zero, pct |-> Zero]

Improvement(daemon_wall_avg, direct_wall_avg) ==
    IF Positive(daemon_wall_avg) /\ Positive(direct_wall_avg)
    THEN LET wall_improvement == FracSub(direct_wall_avg, daemon_wall_avg) IN
         [shown |-> TRUE,
          ms |-> wall_improvement,
          pct |-> FracTimes(FracDiv(wall_improvement, direct_wall_avg), 100)]
    ELSE [shown |-> FALSE, ms |-> Zero, pct |-> Zero]

NoReport ==
    [produced |-> FALSE, daemon |-> WallStats(<<>>), direct |-> WallStats(<<>>),
     improvement |-> Improvement(Zero, Zero), internal |-> FALSE, diag |-> "none"]

GenerateReportInternalAlways(daemon, direct, summary, diag) ==
    [produced |-> TRUE,
     daemon |-> WallStats(daemon),
     direct |-> WallStats(direct),
     improvement |-> Improvement(WallStats(daemon).avg, WallStats(direct).avg),
     internal |-> TRUE,
     diag |-> diag]

GenerateReport(daemon, direct, summary, diag) ==
    [produced |-> TRUE,
     daemon |-> WallStats(daemon),
     direct |-> WallStats(direct),
     improvement |-> Improvement(WallStats(daemon).avg, WallStats(direct).avg),
     internal |-> (DOMAIN summary # {}),
     diag |-> diag]

RecordAlways(results, success, ms) == Append(results, ms)

\* if success: self.results[...].append(wall_time * 1000)
Record(results, success, ms) == IF success THEN Append(results, ms) ELSE results

LoopNextBreakOnFailure(success, k) == success /\ k < Iterations

\* for i in range(self.iterations): the loop goes on whatever the trial did
LoopNext(success, k) == k < Iterations

AfterStopFatal(ok, next) == IF ok THEN next ELSE "handler"

\* _stop_daemon returns a bool that no caller reads: control goes on
AfterStop(ok, next) == next

NextPhaseDirectFirst(phase) ==
    CASE phase = "cleanup" -> "bx_probe"
      [] phase = "direct" -> "bd_start"
      [] phase = "daemon" -> "ts_probe"

\* the order of the phases in run(): cleanup, daemon mode, direct mode, report
NextPhase(phase) ==
    CASE phase = "cleanup" -> "bd_start"
      [] phase = "daemon" -> "bx_probe"
      [] phase = "direct" -> "ts_probe"

\* ------------------------------------------------------------- lifecycle commands
\* _is_daemon_running: success and "running" in output.lower()
IsDaemonRunning(ok) == ok /\ daemonUp

Probe(ok) ==
    /\ lastLifecycle' = IF IsDaemonRunning(ok) THEN "probe_running" ELSE "probe_absent"
    /\ UNCHANGED <<daemonUp, stopSinceRaise>>

StartDaemon(ok, up) ==
    /\ daemonUp' = up
    /\ lastLifecycle' = IF ok THEN "start_ok" ELSE "start_failed"

StopDaemon(ok, up) ==
    /\ daemonUp' = up
    /\ lastLifecycle' = IF ok THEN "stop_ok" ELSE "stop_failed"
    /\ stopSinceRaise' = TRUE

\* ------------------------------------------------------------- Init
Init ==
    /\ pc = "run_probe"
    /\ exc = "none"
    /\ daemonUp \in BOOLEAN
    /\ i = 0
    /\ wall_clock_daemon = <<>>
    /\ wall_clock_direct = <<>>
    /\ caller = "report"
    /\ summary_ok = "none"
    /\ timing_summary = EmptyDict
    /\ report = NoReport
    /\ exported = [written |-> FALSE, daemon |-> <<>>, direct |-> <<>>, summary |-> EmptyDict]
    /\ trials = [m \in Modes |-> <<>>]
    /\ lastLifecycle = "none"
    /\ stopSinceRaise = FALSE

dataVars == <<wall_clock_daemon, wall_clock_direct, trials>>
diagVars == <<caller, summary_ok, timing_summary, report, exported>>

\* ------------------------------------------------------------- run(): cleanup
RunProbe ==
    /\ pc = "run_probe"
    /\ \E ok \in BOOLEAN :
        /\ Probe(ok)
        /\ pc' = IF IsDaemonRunning(ok) THEN "run_stop" ELSE NextPhase("cleanup")
    /\ UNCHANGED <<exc, i, dataVars, diagVars>>

RunStop ==
    /\ pc = "run_stop"
    /\ \E ok \in BOOLEAN : \E up \in StopOutcomes(daemonUp, ok) :
        /\ StopDaemon(ok, up)
        /\ pc' = AfterStop(ok, NextPhase("cleanup"))
    /\ UNCHANGED <<exc, i, dataVars, diagVars>>

\* ------------------------------------------------------------- benchmark_daemon_mode
DaemonStart ==
    /\ pc = "bd_start"
    /\ \E ok \in BOOLEAN : \E up \in StartOutcomes(daemonUp, ok) :
        /\ StartDaemon(ok, up)
        /\ IF ok
           THEN pc' = "bd_query" /\ UNCHANGED <<exc, stopSinceRaise>>
           ELSE pc' = "handler" /\ exc' = "RuntimeError" /\ stopSinceRaise' = FALSE
    /\ i' = 0
    /\ UNCHANGED <<dataVars, diagVars>>

DaemonQuery ==
    /\ pc = "bd_query"
    /\ \E success \in BOOLEAN : \E ms \in Durations :
        /\ wall_clock_daemon' = Record(wall_clock_daemon, success, ms)
        /\ trials' = [trials EXCEPT !.daemon = Append(@, Trial(success, ms))]
        /\ pc' = IF LoopNext(success, i + 1) THEN "bd_query" ELSE "bd_finally"
    /\ i' = i + 1
    /\ UNCHANGED <<exc, daemonUp, wall_clock_direct, diagVars, lastLifecycle,
                   stopSinceRaise>>

DaemonFinally ==
    /\ pc = "bd_finally"
    /\ \E ok \in BOOLEAN : \E up \in StopOutcomes(daemonUp, ok) :
        /\ StopDaemon(ok, up)
        /\ pc' = AfterStop(ok, IF exc = "none" THEN NextPhase("daemon") ELSE "handler")
    /\ UNCHANGED <<exc, i, dataVars, diagVars>>

\* ------------------------------------------------------------- benchmark_direct_mode
DirectProbe ==
    /\ pc = "bx_probe"
    /\ \E ok \in BOOLEAN :
        /\ Probe(ok)
        /\ pc' = IF IsDaemonRunning(ok) THEN "bx_stop" ELSE "bx_query"
    /\ i' = 0
    /\ UNCHANGED <<exc, dataVars, diagVars>>

DirectStop ==
    /\ pc = "bx_stop"
    /\ \E ok \in BOOLEAN : \E up \in StopOutcomes(daemonUp, ok) :
        /\ StopDaemon(ok, up)
        /\ pc' = AfterStop(ok, "bx_query")
    /\ UNCHANGED <<exc, i, dataVars, diagVars>>

DirectQuery ==
    /\ pc = "bx_query"
    /\ \E success \in BOOLEAN : \E ms \in Durations :
        /\ wall_clock_direct' = Record(wall_clock_direct, success, ms)
        /\ trials' = [trials EXCEPT !.direct = Append(@, Trial(success, ms))]
        /\ pc' = IF LoopNext(success, i + 1) THEN "bx_query" ELSE NextPhase("direct")
    /\ i' = i + 1
    /\ UNCHANGED <<exc, daemonUp, wall_clock_daemon, diagVars, lastLifecycle,
                   stopSinceRaise>>

\* ------------------------------------------------------------- _get_timing_summary
TsProbe ==
    /\ pc = "ts_probe"
    /\ \E ok \in BOOLEAN :
        /\ Probe(ok)
        /\ pc' = IF IsDaemonRunning(ok) THEN "ts_query" ELSE "ts_start"
    /\ summary_ok' = "none"
    /\ timing_summary' = EmptyDict
    /\ UNCHANGED <<exc, i, dataVars, caller, report, exported>>

TsStart ==
    /\ pc = "ts_start"
    /\ \E ok \in BOOLEAN : \E up \in StartOutcomes(daemonUp, ok) :
        StartDaemon(ok, up)
    /\ pc' = "ts_query"
    /\ UNCHANGED <<exc, i, dataVars, diagVars, stopSinceRaise>>

TsQuery ==
    /\ pc = "ts_query"
    /\ \E success \in BOOLEAN : \E output \in TimingOutputs :
        /\ summary_ok' = IF success THEN "ok" ELSE "failed"
        /\ timing_summary' = IF success THEN _parse_timing_summary(output) ELSE EmptyDict
    /\ pc' = "ts_finally"
    /\ UNCHANGED <<exc, daemonUp, i, dataVars, caller, report, exported,
                   lastLifecycle, stopSinceRaise>>

TsFinallyNoStop ==
    /\ pc = "ts_finally"
    /\ pc' = IF exc # "none" THEN "handler" ELSE caller
    /\ UNCHANGED <<exc, daemonUp, i, dataVars, diagVars, lastLifecycle,
                   stopSinceRaise>>

TsFinally ==
    /\ pc = "ts_finally"
    /\ \E ok \in BOOLEAN : \E up \in StopOutcomes(daemonUp, ok) :
        /\ StopDaemon(ok, up)
        /\ pc' = AfterStop(ok, IF exc # "none" THEN "handler" ELSE caller)
    /\ UNCHANGED <<exc, i, dataVars, diagVars>>

\* ------------------------------------------------------------- generate_report
Report ==
    /\ pc = "report"
    /\ report' = GenerateReport(wall_clock_daemon, wall_clock_direct,
                                timing_summary, summary_ok)
    /\ caller' = "export"
    /\ pc' = "ts_probe"
    /\ UNCHANGED <<exc, daemonUp, i, dataVars, summary_ok, timing_summary, exported,
                   lastLifecycle, stopSinceRaise>>

\* _export_detailed_data, then the closing banner of generate_report (the write
\* of benchmark_results.json is taken to succeed)
Export ==
    /\ pc = "export"
    /\ exported' = [written |-> TRUE, daemon |-> wall_clock_daemon,
                    direct |-> wall_clock_direct, summary |-> timing_summary]
    /\ pc' = "done"
    /\ UNCHANGED <<exc, daemonUp, i, dataVars, caller, summary_ok, timing_summary,
                   report, lastLifecycle, stopSinceRaise>>

\* ------------------------------------------------------------- interrupt and handlers
\* positions inside run()'s try block
TryPcs ==
    {"run_probe", "run_stop", "bd_start", "bd_query", "bd_finally", "bx_probe",
     "bx_stop", "bx_query", "ts_probe", "ts_start", "ts_query", "ts_finally",
     "report", "export"}

\* KeyboardInterrupt raised at the current position: inside an inner try it runs
\* that try's finally first, otherwise it reaches run()'s except clause.
Interrupt ==
    /\ pc \in TryPcs
    /\ exc' = "KeyboardInterrupt"
    /\ stopSinceRaise' = FALSE
    /\ pc' = CASE pc = "bd_query" -> "bd_finally"
               [] pc = "ts_query" -> "ts_finally"
               [] OTHER -> "handler"
    /\ UNCHANGED <<daemonUp, i, dataVars, diagVars, lastLifecycle>>

HandlerNoStop ==
    /\ pc = "handler"
    /\ pc' = "exited"
    /\ UNCHANGED <<exc, daemonUp, i, dataVars, diagVars, lastLifecycle,
                   stopSinceRaise>>

\* except KeyboardInterrupt / except Exception: _stop_daemon(); sys.exit(1)
Handler ==
    /\ pc = "handler"
    /\ \E ok \in BOOLEAN : \E up \in StopOutcomes(daemonUp, ok) :
        /\ StopDaemon(ok, up)
        /\ pc' = AfterStop(ok, "exited")
    /\ UNCHANGED <<exc, i, dataVars, diagVars>>

Next ==
    \/ RunProbe
    \/ RunStop
    \/ DaemonStart
    \/ DaemonQuery
    \/ DaemonFinally
    \/ DirectProbe
    \/ DirectStop
    \/ DirectQuery
    \/ TsProbe
    \/ TsStart
    \/ TsQuery
    \/ TsFinally
    \/ Report
    \/ Export
    \/ Interrupt
    \/ Handler

Spec == Init /\ [][Next]_vars

\* ============================================================= claims
Succeeded(t) == t.success

\* the durations of the successful invocations of a mode, in invocation order
OkDurations(mode) ==
    LET ok == SelectSeq(trials[mode], Succeeded) IN [k \in 1 .. Len(ok) |-> ok[k].ms]

Failures(mode) == Cardinality({k \in 1 .. Len(trials[mode]) : ~trials[mode][k].success})

Recorded(mode) == IF mode = "daemon" THEN wall_clock_daemon ELSE wall_clock_direct

Reported(mode) == IF mode = "daemon" THEN report.daemon ELSE report.direct

DiagPcs == {"ts_probe", "ts_start", "ts_query", "ts_finally", "report", "export", "done"}

\* the trial loop of the mode has run to its end
PhaseDone(mode) ==
    IF mode = "daemon"
    THEN \/ pc = "bd_finally" /\ exc = "none"
         \/ pc \in {"bx_probe", "bx_stop", "bx_query"} \cup DiagPcs
    ELSE pc \in DiagPcs

\* C1 (as claimed): a daemon-mode trial is executed only while the daemon is up,
\* i.e. only when a status probe after the start command would report it running.
C1_DaemonTrialOnlyWhenRunning ==
    (pc \in {"bd_query", "bd_finally"} /\ Len(trials.daemon) > 0) => daemonUp

\* C2 (as claimed): every direct-mode trial is executed before every daemon-mode
\* trial.
C2_DirectTrialsBeforeDaemonTrials ==
    Len(trials.daemon) > 0 => Len(trials.direct) = Iterations

\* C2 (amended): the phases occur in the order start command, all daemon-mode
\* trials, stop attempt, probe (and stop attempt), all direct-mode trials,
\* diagnostics fetch: every daemon-mode trial is executed before every
\* direct-mode trial, and the diagnostics fetch follows all trials.
C2_DaemonTrialsBeforeDirectTrials ==
    /\ Len(trials.direct) > 0 => Len(trials.daemon) = Iterations
    /\ pc \in DiagPcs => \A m \in Modes : Len(trials[m]) = Iterations
    /\ pc = "bd_query" => lastLifecycle = "start_ok" /\ Len(trials.direct) = 0
    /\ pc = "bx_query" => lastLifecycle \in {"probe_absent", "stop_ok", "stop_failed"}

C2_Witness ==
    /\ pc = "done"
    /\ \A m \in Modes : Len(trials[m]) = Iterations

\* C3: the reported statistics of each mode (sample count, mean, variance, min,
\* max) are those of exactly the successful trials of the mode; with k failures
\* among the iterations the sample count is iterations - k.
C3_StatsOverSuccessfulTrials ==
    report.produced =>
        \A m \in Modes :
            LET ok == OkDurations(m)
                n == Len(ok)
                r == Reported(m)
            IN /\ r.samples = Iterations - Failures(m)
               /\ r.samples = n
               /\ r.avg[1] * (IF n = 0 THEN 1 ELSE n) = SeqSum(ok) * r.avg[2]
               /\ n > 0 => /\ \A k \in 1 .. n : r.min <= ok[k] /\ ok[k] <= r.max
                           /\ \E k \in 1 .. n : r.min = ok[k]
                           /\ \E k \in 1 .. n : r.max = ok[k]
               /\ n > 1 => r.std_sq[1] * n * (n - 1)
                              = (n * SeqSumSq(ok) - SeqSum(ok) * SeqSum(ok)) * r.std_sq[2]
               /\ n <= 1 => r.std_sq[1] = 0

C3_Witness ==
    /\ report.produced
    /\ \A m \in Modes : Failures(m) = 1 /\ Reported(m).samples = Iterations - 1
    /\ report.direct.avg[1] > 0

C5_LeavesDaemonRunning ==
    pc = "done" => lastLifecycle \in {"start_ok", "probe_running"}

\* C5 (amended): at the end of a run that completes normally the last lifecycle
\* command issued is a stop.
C5_LastLifecycleCommandIsStop ==
    pc = "done" => lastLifecycle \in {"stop_ok", "stop_failed"}

C5_Witness ==
    /\ pc = "done"
    /\ lastLifecycle = "stop_ok"
    /\ ~daemonUp

\* C6: when run() is ended by an interrupt or a fatal error, a stop command has
\* been issued after the error was raised and before the process exits.
C6_AbortAttemptsStop ==
    pc = "exited" => exc # "none" /\ stopSinceRaise

C6_Witness ==
    /\ pc = "exited"
    /\ exc = "KeyboardInterrupt"
    /\ Len(trials.daemon) > 0
    /\ daemonUp

\* C7: a failing stop command never aborts the run: the run is aborted only by
\* an interrupt or by the failed start of the daemon phase, and a run that is
\* not aborted makes all trials and produces the report and the export.
C7_StopFailureNeverAborts ==
    /\ pc \in {"handler", "exited"} => exc \in {"KeyboardInterrupt", "RuntimeError"}
    /\ (pc = "handler" /\ exc = "RuntimeError") =>
           lastLifecycle = "start_failed" /\ Len(trials.daemon) = 0
    /\ pc = "done" => /\ \A m \in Modes : Len(trials[m]) = Iterations
                      /\ report.produced
                      /\ exported.written

\* the stop before the direct phase has failed and the direct trials are made
C7_Witness ==
    /\ pc = "bx_query"
    /\ lastLifecycle = "stop_failed"
    /\ Len(trials.direct) > 0
    /\ exc = "none"

\* C8: when the timing-summary command of the report exits non-zero, the report
\* still holds the wall-clock statistics of the successful trials, it has no
\* internal-timing section, nothing but an interrupt aborts the run afterwards
\* and the export is written with the recorded samples.
C8_DiagnosticsFailureTolerated ==
    (report.produced /\ report.diag = "failed") =>
        /\ ~report.internal
        /\ \A m \in Modes :
               /\ Reported(m).samples = Len(OkDurations(m))
               /\ Reported(m).avg[1] = SeqSum(OkDurations(m))
        /\ pc \in {"handler", "exited"} => exc = "KeyboardInterrupt"
        /\ pc = "done" => /\ exported.written
                          /\ exported.daemon = OkDurations("daemon")
                          /\ exported.direct = OkDurations("direct")

C8_Witness ==
    /\ pc = "done"
    /\ report.diag = "failed"
    /\ exported.written
    /\ report.daemon.samples > 0
    /\ report.direct.samples > 0

\* C9: the improvement fields are reported only when both modes have a
\* successful sample and the direct mean is not zero; when reported,
\* improvement_ms = direct mean - daemon mean and
\* improvement_percent = improvement_ms / direct mean * 100.
C9_ImprovementFields ==
    report.produced =>
        LET sD == SeqSum(OkDurations("daemon"))
            nD == Len(OkDurations("daemon"))
            sF == SeqSum(OkDurations("direct"))
            nF == Len(OkDurations("direct"))
            imp == report.improvement
        IN imp.shown =>
               /\ nD >= 1 /\ nF >= 1 /\ sF # 0
               /\ imp.ms[2] > 0 /\ imp.pct[2] > 0
               /\ imp.ms[1] * (nF * nD) = (sF * nD - sD * nF) * imp.ms[2]
               /\ imp.pct[1] * (sF * nD) = (sF * nD - sD * nF) * 100 * imp.pct[2]

C9_Witness ==
    /\ report.produced
    /\ report.improvement.shown
    /\ report.improvement.ms[1] > 0
    /\ report.daemon.samples = Iterations

\* C10 (as claimed): when the start command of _get_timing_summary fails, the
\* timing-summary query is not issued.
C10_NoTimingQueryAfterFailedStart ==
    (pc = "ts_finally" /\ summary_ok # "none") => lastLifecycle # "start_failed"

====
